---------------------------- MODULE Spec2Model ----------------------------
(***************************************************************************)
(* A model of the authentool command-line utilities:                       *)
(*   - cli/crypt.py: the password-based AES-GCM envelope codec             *)
(*     (encrypt / decrypt), checked under Spec;                            *)
(*   - cli/codegen/code_generator.py: generate_totp, checked under         *)
(*     SpecTotp;                                                           *)
(*   - cli/qr_parse.py: parse_totp_url, checked under SpecUrl.             *)
(*                                                                         *)
(* Text is a sequence of Unicode code points, bytes are sequences of       *)
(* 0..255, base64 text is a sequence of alphabet indices 0..63 with 64     *)
(* standing for '=' and 65 for a character outside the alphabet.           *)
(*                                                                         *)
(* The library primitives are modelled as ideal functions: PBKDF2 as a     *)
(* collision-free function of (password, salt), AES-GCM as a stream cipher *)
(* (XOR with a keystream of key and nonce) followed by a 16-byte tag that  *)
(* is a function of key, nonce and ciphertext, and that differs whenever   *)
(* the password, or one ciphertext byte, differs.                          *)
(***************************************************************************)
EXTENDS Integers, Sequences, FiniteSets, TLC

VARIABLES
    phase,        \* crypt scenario: "idle", "encrypted", "edited", "decrypted"
    plaintext,    \* encrypt's plaintext argument (code points)
    password,     \* encrypt's password argument (code points)
    salt,         \* the salt os.urandom returned (<< >> when not drawn)
    iv,           \* the IV os.urandom returned (<< >> when not drawn)
    encOut,       \* what encrypt returned or raised
    wire,         \* the text handed to decrypt
    edit,         \* how wire was obtained from encrypt's output
    decPassword,  \* decrypt's password argument
    decOut,       \* what decrypt returned or raised
    totpLast,     \* the latest generate_totp call and its result
    totpPrev,     \* the generate_totp call before it
    url,          \* parse_totp_url's argument
    urlOut        \* what parse_totp_url returned or raised

cryptVars == <<phase, plaintext, password, salt, iv, encOut, wire, edit,
               decPassword, decOut>>
totpVars == <<totpLast, totpPrev>>
urlVars == <<url, urlOut>>
vars == <<cryptVars, totpVars, urlVars>>

----------------------------------------------------------------------------
(* Program constants of cli/crypt.py *)
SALT_SIZE == 16
IV_SIZE == 12
KEY_SIZE == 32
TAG_SIZE == 16
VERSION_ID == 8

(* Bounds of the model *)
MaxPlainLen == 1
MaxPasswordLen == 1

----------------------------------------------------------------------------
(* Generic helpers *)

RECURSIVE SeqsUpTo(_, _)
SeqsUpTo(S, n) ==
    IF n = 0 THEN {<< >>}
    ELSE LET shorter == SeqsUpTo(S, n - 1)
         IN  shorter \cup {Append(s, c) : s \in {t \in shorter : Len(t) = n - 1}, c \in S}

Take(s, n) == SubSeq(s, 1, IF n < Len(s) THEN n ELSE Len(s))
Drop(s, n) == SubSeq(s, n + 1, Len(s))

RECURSIVE XorBits(_, _, _)
XorBits(a, b, n) ==
    IF n = 0 THEN 0
    ELSE ((a + b) % 2) + 2 * XorBits(a \div 2, b \div 2, n - 1)

Xor(a, b) == XorBits(a, b, 8)

RECURSIVE SumTo(_, _)
SumTo(f, n) == IF n = 0 THEN 0 ELSE f[n] + SumTo(f, n - 1)

----------------------------------------------------------------------------
(* str.encode('utf-8') and bytes.decode('utf-8') *)

IsSurrogate(c) == c >= 55296 /\ c <= 57343

Utf8Encodable(s) == \A i \in 1..Len(s) : ~IsSurrogate(s[i])

Utf8Char(c) ==
    IF c < 128 THEN <<c>>
    ELSE IF c < 2048 THEN <<192 + (c \div 64), 128 + (c % 64)>>
    ELSE IF c < 65536
         THEN <<224 + (c \div 4096), 128 + ((c \div 64) % 64), 128 + (c % 64)>>
    ELSE <<240 + (c \div 262144), 128 + ((c \div 4096) % 64),
           128 + ((c \div 64) % 64), 128 + (c % 64)>>

RECURSIVE Utf8Encode(_)
Utf8Encode(s) ==
    IF s = << >> THEN << >> ELSE Utf8Char(Head(s)) \o Utf8Encode(Tail(s))

IsCont(b) == b >= 128 /\ b <= 191

\* The length of the well-formed UTF-8 sequence that starts b, 0 when there
\* is none (the strict decoder's rules: no overlong forms, no surrogates,
\* nothing above U+10FFFF).
Utf8SeqLen(b) ==
    IF b = << >> THEN 0
    ELSE LET b1 == b[1] IN
         IF b1 < 128 THEN 1
         ELSE IF b1 >= 194 /\ b1 <= 223
              THEN IF Len(b) >= 2 /\ IsCont(b[2]) THEN 2 ELSE 0
         ELSE IF b1 >= 224 /\ b1 <= 239
              THEN IF /\ Len(b) >= 3
                      /\ IsCont(b[2]) /\ IsCont(b[3])
                      /\ (b1 = 224 => b[2] >= 160)
                      /\ (b1 = 237 => b[2] <= 159)
                   THEN 3 ELSE 0
         ELSE IF b1 >= 240 /\ b1 <= 244
              THEN IF /\ Len(b) >= 4
                      /\ IsCont(b[2]) /\ IsCont(b[3]) /\ IsCont(b[4])
                      /\ (b1 = 240 => b[2] >= 144)
                      /\ (b1 = 244 => b[2] <= 143)
                   THEN 4 ELSE 0
         ELSE 0

Utf8CodePoint(b, n) ==
    IF n = 1 THEN b[1]
    ELSE IF n = 2 THEN (b[1] - 192) * 64 + (b[2] - 128)
    ELSE IF n = 3 THEN (b[1] - 224) * 4096 + (b[2] - 128) * 64 + (b[3] - 128)
    ELSE (b[1] - 240) * 262144 + (b[2] - 128) * 4096 + (b[3] - 128) * 64 + (b[4] - 128)

RECURSIVE Utf8Valid(_)
Utf8Valid(b) ==
    IF b = << >> THEN TRUE
    ELSE LET n == Utf8SeqLen(b) IN n > 0 /\ Utf8Valid(Drop(b, n))

RECURSIVE Utf8Decode(_)
Utf8Decode(b) ==
    IF b = << >> THEN << >>
    ELSE LET n == Utf8SeqLen(b) IN <<Utf8CodePoint(b, n)>> \o Utf8Decode(Drop(b, n))

----------------------------------------------------------------------------
(* base64.b64encode and base64.b64decode (binascii.a2b_base64, not strict) *)

Pad == 64         \* '='
NotAlphabet == 65 \* a character outside the base64 alphabet, such as '!'

B64Chars == 0..65

RECURSIVE Base64Encode(_)
Base64Encode(b) ==
    IF b = << >> THEN << >>
    ELSE IF Len(b) = 1
         THEN <<b[1] \div 4, (b[1] % 4) * 16, Pad, Pad>>
    ELSE IF Len(b) = 2
         THEN <<b[1] \div 4, (b[1] % 4) * 16 + (b[2] \div 16), (b[2] % 16) * 4, Pad>>
    ELSE <<b[1] \div 4, (b[1] % 4) * 16 + (b[2] \div 16),
           (b[2] % 16) * 4 + (b[3] \div 64), b[3] % 64>>
         \o Base64Encode(Drop(b, 3))

\* One character of the decoder's loop. q is the position in the current
\* group of four, left the bits not yet written, pads the '=' seen since
\* the last data character, done is set by a complete pad sequence.
A2bStep(st, ch) ==
    IF st.done THEN st
    ELSE IF ch = Pad
         THEN IF st.q >= 2
              THEN IF st.q + st.pads + 1 >= 4
                   THEN [st EXCEPT !.pads = @ + 1, !.done = TRUE]
                   ELSE [st EXCEPT !.pads = @ + 1]
              ELSE st
    ELSE IF ch > 63 THEN st
    ELSE IF st.q = 0
         THEN [st EXCEPT !.pads = 0, !.q = 1, !.left = ch]
    ELSE IF st.q = 1
         THEN [st EXCEPT !.pads = 0, !.q = 2, !.left = ch % 16,
                         !.out = Append(@, st.left * 4 + (ch \div 16))]
    ELSE IF st.q = 2
         THEN [st EXCEPT !.pads = 0, !.q = 3, !.left = ch % 4,
                         !.out = Append(@, st.left * 16 + (ch \div 4))]
    ELSE [st EXCEPT !.pads = 0, !.q = 0, !.left = 0,
                    !.out = Append(@, st.left * 64 + ch)]

\* The loop over the characters from position i on; a complete pad
\* sequence ends it.
RECURSIVE A2bLoop(_, _, _)
A2bLoop(st, t, i) ==
    IF i > Len(t) THEN st
    ELSE LET next == A2bStep(st, t[i])
         IN  IF next.done THEN next ELSE A2bLoop(next, t, i + 1)

\* [ok, bytes, err]: the decoded bytes, or binascii.Error's message.
Base64Decode(t) ==
    LET st == A2bLoop([q |-> 0, left |-> 0, pads |-> 0, out |-> << >>, done |-> FALSE], t, 1)
    IN  IF st.done \/ st.q = 0
        THEN [ok |-> TRUE, bytes |-> st.out, err |-> ""]
        ELSE IF st.q = 1
             THEN [ok |-> FALSE, bytes |-> << >>, err |-> "Invalid base64-encoded string"]
             ELSE [ok |-> FALSE, bytes |-> << >>, err |-> "Incorrect padding"]

----------------------------------------------------------------------------
(* derive_key, and the AESGCM primitive it feeds *)

\* PBKDF2-HMAC-SHA256 as an ideal function: the salt, then the length of
\* the password and its bytes. Two passwords of at most 15 bytes give
\* two keys under the same salt.
Pbkdf2(pwBytes, s) ==
    [j \in 1..KEY_SIZE |->
        IF j <= SALT_SIZE THEN (IF j <= Len(s) THEN s[j] ELSE 0)
        ELSE IF j = SALT_SIZE + 1 THEN Len(pwBytes) % 256
        ELSE IF j - SALT_SIZE - 1 <= Len(pwBytes) THEN pwBytes[j - SALT_SIZE - 1]
        ELSE 0]

derive_key(pw, s) == Pbkdf2(Utf8Encode(pw), s)

\* The CTR keystream byte at position i.
Keystream(key, nonce, i) ==
    (key[((i - 1) % KEY_SIZE) + 1] + 3 * nonce[((i - 1) % IV_SIZE) + 1] + i) % 256

GcmCrypt(key, nonce, data) ==
    [i \in 1..Len(data) |-> Xor(data[i], Keystream(key, nonce, i))]

\* The GCM tag: every byte of it depends on the key, the nonce and, with an
\* odd weight, on every ciphertext byte.
GcmTag(key, nonce, ct) ==
    LET mix(j) == SumTo([i \in 1..Len(ct) |-> ct[i] * (2 * ((i + j) % 8) + 1)], Len(ct))
    IN  [j \in 1..TAG_SIZE |->
            (key[j] + key[j + TAG_SIZE] + nonce[((j - 1) % IV_SIZE) + 1]
             + mix(j) + Len(ct)) % 256]

\* AESGCM(key).encrypt(nonce, data, None): ciphertext, then the tag.
AesGcmEncrypt(key, nonce, data) ==
    LET ct == GcmCrypt(key, nonce, data) IN ct \o GcmTag(key, nonce, ct)

\* TagMatches with a fault: the last byte of the tag is not compared.
TagMatchesPrefix(key, nonce, ct, tag) ==
    Take(tag, TAG_SIZE - 1) = Take(GcmTag(key, nonce, ct), TAG_SIZE - 1)

TagMatches(key, nonce, ct, tag) == tag = GcmTag(key, nonce, ct)

\* AESGCM(key).decrypt(nonce, data, None): [ok, bytes]; ok is FALSE where
\* the library raises InvalidTag.
AesGcmDecrypt(key, nonce, data) ==
    IF Len(data) < TAG_SIZE THEN [ok |-> FALSE, bytes |-> << >>]
    ELSE LET ct == Take(data, Len(data) - TAG_SIZE)
             tag == Drop(data, Len(data) - TAG_SIZE)
         IN  IF TagMatches(key, nonce, ct, tag)
             THEN [ok |-> TRUE, bytes |-> GcmCrypt(key, nonce, ct)]
             ELSE [ok |-> FALSE, bytes |-> << >>]

----------------------------------------------------------------------------
(* Results of a call: a returned value or a raised exception *)

Returned(v) == [exc |-> "none", msg |-> << >>, value |-> v]
Raised(e, m) == [exc |-> e, msg |-> m, value |-> << >>]
NotCalled == [exc |-> "not called", msg |-> << >>, value |-> << >>]

HexDigit == <<"0", "1", "2", "3", "4", "5", "6", "7", "8", "9",
              "a", "b", "c", "d", "e", "f">>

\* f"{version:02x}"
Hex02(v) == <<HexDigit[(v \div 16) + 1], HexDigit[(v % 16) + 1]>>

----------------------------------------------------------------------------
(* encrypt *)

\* EncryptRejects with a fault: "and" for "or".
EncryptRejectsBoth(p, k) == p = << >> /\ k = << >>

EncryptRejects(p, k) == p = << >> \/ k = << >>

\* encrypt(p, k) when os.urandom returns s and then n.
encrypt(p, k, s, n) ==
    IF EncryptRejects(p, k)
    THEN Raised("CryptException", <<"Plaintext and password cannot be empty">>)
    ELSE IF ~Utf8Encodable(k) \/ ~Utf8Encodable(p)
         THEN Raised("UnicodeEncodeError", <<"'utf-8' codec can't encode character">>)
    ELSE LET key == derive_key(k, s)
             ciphertext == AesGcmEncrypt(key, n, Utf8Encode(p))
             output == <<VERSION_ID>> \o s \o n \o ciphertext
         IN  Returned(Base64Encode(output))

----------------------------------------------------------------------------
(* decrypt *)

\* MinSize off by one: two payload bytes required, and none.
MinSizeTwoBytes == 1 + SALT_SIZE + IV_SIZE + TAG_SIZE + 2
MinSizeNoPayload == 1 + SALT_SIZE + IV_SIZE + TAG_SIZE

MinSize == 1 + SALT_SIZE + IV_SIZE + TAG_SIZE + 1

\* Repad with a fault: the text is decoded as it came.
RepadMissing(t) == t

\* "ensure proper base64 padding"
Repad(t) ==
    LET missing_padding == Len(t) % 4
    IN  IF missing_padding # 0
        THEN t \o [i \in 1..(4 - missing_padding) |-> Pad]
        ELSE t

\* VersionAccepted with a fault: older versions pass.
VersionAcceptedUpTo(version) == version <= VERSION_ID

VersionAccepted(version) == version = VERSION_ID

\* From key derivation on: the slices, the key, the cipher, the decoding.
DecryptPayload(encrypted_bytes, k) ==
    LET s == SubSeq(encrypted_bytes, 2, 1 + SALT_SIZE)
        n == SubSeq(encrypted_bytes, 2 + SALT_SIZE, 1 + SALT_SIZE + IV_SIZE)
        ciphertext == Drop(encrypted_bytes, 1 + SALT_SIZE + IV_SIZE)
    IN  IF ~Utf8Encodable(k)
        THEN Raised("UnicodeEncodeError", <<"'utf-8' codec can't encode character">>)
        ELSE LET r == AesGcmDecrypt(derive_key(k, s), n, ciphertext)
             IN  IF ~r.ok THEN Raised("InvalidTag", << >>)
                 ELSE IF ~Utf8Valid(r.bytes)
                      THEN Raised("UnicodeDecodeError", <<"'utf-8' codec can't decode byte">>)
                 ELSE Returned(Utf8Decode(r.bytes))

\* The body of decrypt's try block: what it returns or raises.
DecryptBody(t, k) ==
    LET decoded == Base64Decode(Repad(t))
    IN  IF ~decoded.ok THEN Raised("binascii.Error", <<decoded.err>>)
        ELSE IF Len(decoded.bytes) < MinSize
             THEN Raised("CryptException", <<"Encrypted data too short">>)
        ELSE IF ~VersionAccepted(decoded.bytes[1])
             THEN Raised("CryptException",
                         <<"Unsupported version ID: ">> \o Hex02(decoded.bytes[1]))
        ELSE DecryptPayload(decoded.bytes, k)

\* DecryptHandlers with a fault: the general clause comes first and takes
\* InvalidTag too (str(InvalidTag()) is empty).
DecryptHandlersGeneralFirst(r) ==
    IF r.exc = "none" THEN r
    ELSE Raised("CryptException", <<"Decryption failed: ">> \o r.msg)

\* DecryptHandlers with a fault: no general clause.
DecryptHandlersTagOnly(r) ==
    IF r.exc = "InvalidTag"
    THEN Raised("CryptException", <<"Decryption failed: Invalid tag (wrong password?)">>)
    ELSE r

\* The two except clauses.
DecryptHandlers(r) ==
    IF r.exc = "none" THEN r
    ELSE IF r.exc = "InvalidTag"
         THEN Raised("CryptException", <<"Decryption failed: Invalid tag (wrong password?)">>)
    ELSE Raised("CryptException", <<"Decryption failed: ">> \o r.msg)

decrypt(t, k) == DecryptHandlers(DecryptBody(t, k))

----------------------------------------------------------------------------
(* The inputs the crypt scenarios draw from *)

\* 'A', U+00E9 and U+20AC (1, 2 and 3 bytes of UTF-8), and the lone
\* surrogate U+D800, which a command-line argument can hold and UTF-8 cannot.
PlainChars == {65, 233, 8364, 55296}
\* 'a', 'b'. getpass decodes strictly, so a password holds no lone surrogate.
PwChars == {97, 98}
Plaintexts == SeqsUpTo(PlainChars, MaxPlainLen)
Passwords == SeqsUpTo(PwChars, MaxPasswordLen)

\* What os.urandom may return: <<salt, iv>>.
Randoms ==
    { <<[i \in 1..SALT_SIZE |-> 0], [i \in 1..IV_SIZE |-> 255]>>,
      <<[i \in 1..SALT_SIZE |-> (37 * i) % 256], [i \in 1..IV_SIZE |-> (i * i) % 256]>> }

TamperDeltas == {1, 16, 128, 255}   \* added to the byte, modulo 256
OtherVersions == {0, 7, 9, 255}
TruncVersions == {VERSION_ID, 9}
\* Payloads another tool may seal at the same version.
RawPayloads == { <<255>>, <<195>>, <<128, 65>>, <<192, 128>>, <<237, 160, 128>>, <<65>> }
\* Texts that are no envelope at all.
GarbageTexts ==
    { << >>, <<0>>, <<0, 0>>, <<0, 0, 0>>, <<0, 0, Pad, 0>>, <<Pad>>,
      <<NotAlphabet, 0, 0, 0, 0>>, <<0, 0, 0, 0, 0>> }

NoEdit == [op |-> "none", at |-> 0, by |-> 0, raw |-> << >>]

----------------------------------------------------------------------------
(* The crypt scenarios: one encrypt, at most one change of its output by   *)
(* whoever carries the text, one decrypt.                                  *)

InitCrypt ==
    /\ phase = "idle"
    /\ plaintext = << >>
    /\ password = << >>
    /\ salt = << >>
    /\ iv = << >>
    /\ encOut = NotCalled
    /\ wire = << >>
    /\ edit = NoEdit
    /\ decPassword = << >>
    /\ decOut = NotCalled

InitTotpIdle ==
    /\ totpLast = [called |-> FALSE]
    /\ totpPrev = [called |-> FALSE]

InitUrlIdle ==
    /\ url = << >>
    /\ urlOut = NotCalled

\* os.urandom is reached only past the emptiness check.
Drawn(p, k, r) == IF EncryptRejects(p, k) THEN << >> ELSE r

Encrypt(p, k, r) ==
    /\ phase = "idle"
    /\ plaintext' = p
    /\ password' = k
    /\ salt' = Drawn(p, k, r[1])
    /\ iv' = Drawn(p, k, r[2])
    /\ encOut' = encrypt(p, k, r[1], r[2])
    /\ wire' = encOut'.value
    /\ phase' = IF encOut'.exc = "none" THEN "encrypted" ELSE "failed"
    /\ UNCHANGED <<edit, decPassword, decOut>>
    /\ UNCHANGED <<totpVars, urlVars>>

\* The carrier drops c trailing '=' characters.
StripPadding(c) ==
    /\ phase = "encrypted"
    /\ Len(wire) >= c
    /\ \A i \in (Len(wire) - c + 1)..Len(wire) : wire[i] = Pad
    /\ wire' = Take(wire, Len(wire) - c)
    /\ edit' = [op |-> "strip", at |-> c, by |-> 0, raw |-> << >>]
    /\ phase' = "edited"
    /\ UNCHANGED <<plaintext, password, salt, iv, encOut, decPassword, decOut>>
    /\ UNCHANGED <<totpVars, urlVars>>

\* One byte of the envelope, at offset off (from 0), becomes another value.
TamperByte(off, d) ==
    /\ phase = "encrypted"
    /\ LET bytes == Base64Decode(wire).bytes
       IN  /\ off < Len(bytes)
           /\ wire' = Base64Encode([bytes EXCEPT ![off + 1] = (@ + d) % 256])
    /\ edit' = [op |-> "tamper", at |-> off, by |-> d, raw |-> << >>]
    /\ phase' = "edited"
    /\ UNCHANGED <<plaintext, password, salt, iv, encOut, decPassword, decOut>>
    /\ UNCHANGED <<totpVars, urlVars>>

\* The version byte becomes v.
ReplaceVersion(v) ==
    /\ phase = "encrypted"
    /\ wire' = Base64Encode([Base64Decode(wire).bytes EXCEPT ![1] = v])
    /\ edit' = [op |-> "version", at |-> 0, by |-> v, raw |-> << >>]
    /\ phase' = "edited"
    /\ UNCHANGED <<plaintext, password, salt, iv, encOut, decPassword, decOut>>
    /\ UNCHANGED <<totpVars, urlVars>>

\* Only the first n bytes of the envelope arrive, with version byte v.
Truncate(n, v) ==
    /\ phase = "encrypted"
    /\ LET short == Take(Base64Decode(wire).bytes, n)
       IN  wire' = Base64Encode(IF n = 0 THEN short ELSE [short EXCEPT ![1] = v])
    /\ edit' = [op |-> "truncate", at |-> n, by |-> v, raw |-> << >>]
    /\ phase' = "edited"
    /\ UNCHANGED <<plaintext, password, salt, iv, encOut, decPassword, decOut>>
    /\ UNCHANGED <<totpVars, urlVars>>

\* Another tool seals raw bytes under password k at the current version.
Craft(raw, k, r) ==
    /\ phase = "idle"
    /\ password' = k
    /\ salt' = r[1]
    /\ iv' = r[2]
    /\ wire' = Base64Encode(<<VERSION_ID>> \o r[1] \o r[2]
                            \o AesGcmEncrypt(derive_key(k, r[1]), r[2], raw))
    /\ edit' = [op |-> "craft", at |-> 0, by |-> 0, raw |-> raw]
    /\ phase' = "edited"
    /\ UNCHANGED <<plaintext, encOut, decPassword, decOut>>
    /\ UNCHANGED <<totpVars, urlVars>>

\* decrypt is handed a text that never was an envelope.
Garbage(t) ==
    /\ phase = "idle"
    /\ wire' = t
    /\ edit' = [op |-> "garbage", at |-> 0, by |-> 0, raw |-> << >>]
    /\ phase' = "edited"
    /\ UNCHANGED <<plaintext, password, salt, iv, encOut, decPassword, decOut>>
    /\ UNCHANGED <<totpVars, urlVars>>

Decrypt(k) ==
    /\ phase \in {"encrypted", "edited"}
    /\ decPassword' = k
    /\ decOut' = decrypt(wire, k)
    /\ phase' = "decrypted"
    /\ UNCHANGED <<plaintext, password, salt, iv, encOut, wire, edit>>
    /\ UNCHANGED <<totpVars, urlVars>>

\* Every length below that of the shortest envelope encrypt can produce.
TruncLens == 0..(SALT_SIZE + IV_SIZE + TAG_SIZE + 1)
\* The offsets of ciphertext and tag in the longest envelope.
TamperOffsets ==
    (1 + SALT_SIZE + IV_SIZE)..(SALT_SIZE + IV_SIZE + 3 * MaxPlainLen + TAG_SIZE)

Init == InitCrypt /\ InitTotpIdle /\ InitUrlIdle

Next ==
    \/ \E p \in Plaintexts, k \in Passwords, r \in Randoms : Encrypt(p, k, r)
    \/ \E c \in 1..2 : StripPadding(c)
    \/ \E off \in TamperOffsets, d \in TamperDeltas : TamperByte(off, d)
    \/ \E v \in OtherVersions : ReplaceVersion(v)
    \/ \E n \in TruncLens, v \in TruncVersions : Truncate(n, v)
    \/ \E raw \in RawPayloads, k \in Passwords, r \in Randoms : Craft(raw, k, r)
    \/ \E t \in GarbageTexts : Garbage(t)
    \/ \E k \in Passwords : Decrypt(k)

Spec == Init /\ [][Next]_vars

----------------------------------------------------------------------------
(* cli/codegen/code_generator.py: generate_totp *)

\* HMAC-SHA1 as an ideal function: 20 bytes, each depending on every byte
\* of the key and of the message.
HmacSha1(key, msg) ==
    [i \in 1..20 |->
        ( SumTo([j \in 1..Len(key) |-> key[j] * (2 * ((i + j) % 16) + 1)], Len(key))
        + SumTo([k \in 1..Len(msg) |-> msg[k] * (2 * ((i * k) % 32) + 3)], Len(msg))
        + 31 * i * i + 7 ) % 256]

RECURSIVE Pow(_, _)
Pow(b, e) == IF e = 0 THEN 1 ELSE b * Pow(b, e - 1)

\* n.to_bytes(len, "big")
RECURSIVE ToBytes(_, _)
ToBytes(n, len) ==
    IF len = 0 THEN << >> ELSE Append(ToBytes(n \div 256, len - 1), n % 256)

\* f"{n:06d}" as its digits
Digits6(n) == [k \in 1..6 |-> (n \div Pow(10, 6 - k)) % 10]

\* The code of one counter value: the HMAC, the dynamic truncation, the
\* last six decimal digits.
TotpCode(secret_bytes, counter) ==
    LET hash_bytes == HmacSha1(secret_bytes, ToBytes(counter, 8))
        offset == hash_bytes[20] % 16
        binary == (hash_bytes[offset + 1] % 128) * 16777216
                  + hash_bytes[offset + 2] * 65536
                  + hash_bytes[offset + 3] * 256
                  + hash_bytes[offset + 4]
    IN  Digits6(binary % 1000000)

\* Times are counted in half seconds, so that a timestamp such as 0.5 is
\* there: int(timestamp) is the half seconds divided by two.
WholeSeconds(halves) == halves \div 2

\* "timestamp or time.time()": arg is [given, t], the clock is read when
\* the left operand is falsy.
EffectiveTimestamp(arg, clock) ==
    IF arg.given /\ arg.t # 0 THEN arg.t ELSE clock

generate_totp(secret_bytes, arg, clock) ==
    TotpCode(secret_bytes, WholeSeconds(EffectiveTimestamp(arg, clock)) \div 30)

TotpSecrets == { <<1, 2, 3>>, <<72, 101, 108, 108, 111>> }
\* 0 s, 0.5 s, 1 s, 29.5 s, 30 s, 45 s, 60 s
TotpTimes == {0, 1, 2, 59, 60, 90, 120}
TotpArgs == {[given |-> FALSE, t |-> 0]} \cup {[given |-> TRUE, t |-> t] : t \in TotpTimes}
TotpClocks == {0, 59, 60, 130}

GenerateTotp(secret_bytes, arg, clock) ==
    /\ totpPrev' = totpLast
    /\ totpLast' = [called |-> TRUE, secret |-> secret_bytes, arg |-> arg,
                    clock |-> clock, code |-> generate_totp(secret_bytes, arg, clock)]
    /\ UNCHANGED <<cryptVars, urlVars>>

NextTotp ==
    \E secret_bytes \in TotpSecrets, arg \in TotpArgs, clock \in TotpClocks :
        GenerateTotp(secret_bytes, arg, clock)

SpecTotp == Init /\ [][NextTotp]_vars

----------------------------------------------------------------------------
(* cli/qr_parse.py: parse_totp_url. Text is a sequence of one-character    *)
(* strings.                                                                *)

MaxLabelLen == 2

TotpPrefix == <<"o", "t", "p", "a", "u", "t", "h", ":", "/", "/", "t", "o", "t", "p", "/">>

StartsWith(s, prefix) ==
    Len(s) >= Len(prefix) /\ SubSeq(s, 1, Len(prefix)) = prefix

\* The first position from `from` on that holds a character of cs, else 0.
RECURSIVE FindAny(_, _, _)
FindAny(s, cs, from) ==
    IF from > Len(s) THEN 0
    ELSE IF s[from] \in cs THEN from
    ELSE FindAny(s, cs, from + 1)

\* urllib.parse.urlparse of a URL with a scheme: [scheme, netloc, path,
\* query, fragment]. otpauth is no scheme that takes ;parameters.
urlparse(u) ==
    LET colon == FindAny(u, {":"}, 1)
        scheme == Take(u, colon - 1)
        rest == Drop(u, colon)
        hasNetloc == StartsWith(rest, <<"/", "/">>)
        delim == IF hasNetloc THEN FindAny(rest, {"/", "?", "#"}, 3) ELSE 0
        netloc == IF ~hasNetloc THEN << >>
                  ELSE IF delim = 0 THEN Drop(rest, 2)
                  ELSE SubSeq(rest, 3, delim - 1)
        afterNetloc == IF ~hasNetloc THEN rest
                       ELSE IF delim = 0 THEN << >>
                       ELSE Drop(rest, delim - 1)
        hash == FindAny(afterNetloc, {"#"}, 1)
        fragment == IF hash = 0 THEN << >> ELSE Drop(afterNetloc, hash)
        beforeHash == IF hash = 0 THEN afterNetloc ELSE Take(afterNetloc, hash - 1)
        qmark == FindAny(beforeHash, {"?"}, 1)
        query == IF qmark = 0 THEN << >> ELSE Drop(beforeHash, qmark)
        path == IF qmark = 0 THEN beforeHash ELSE Take(beforeHash, qmark - 1)
    IN  [scheme |-> scheme, netloc |-> netloc, path |-> path,
         query |-> query, fragment |-> fragment]

\* str.lstrip(chars): the leading characters that are in chars go.
RECURSIVE LStrip(_, _)
LStrip(s, cs) ==
    IF s # << >> /\ Head(s) \in cs THEN LStrip(Tail(s), cs) ELSE s

\* parsed.path.lstrip("/totp/")
NameOfPath(path) == LStrip(path, {"/", "t", "o", "p"})

\* s split at every c
RECURSIVE Split(_, _)
Split(s, c) ==
    LET at == FindAny(s, {c}, 1)
    IN  IF at = 0 THEN <<s>> ELSE <<Take(s, at - 1)>> \o Split(Drop(s, at), c)

\* parse_qs(query).get(name, [None])[0]: the first non-blank value given
\* to name, [found, value]. Pairs without '=' and blank values are dropped.
RECURSIVE FirstValue(_, _)
FirstValue(pairs, name) ==
    IF pairs = << >> THEN [found |-> FALSE, value |-> << >>]
    ELSE LET pair == Head(pairs)
             eq == FindAny(pair, {"="}, 1)
         IN  IF eq # 0 /\ Take(pair, eq - 1) = name /\ Drop(pair, eq) # << >>
             THEN [found |-> TRUE, value |-> Drop(pair, eq)]
             ELSE FirstValue(Tail(pairs), name)

QueryParam(query, name) == FirstValue(Split(query, "&"), name)

parse_totp_url(u) ==
    IF ~StartsWith(u, TotpPrefix)
    THEN Raised("ValueError", <<"URL must be an otpauth://totp/ URI">>)
    ELSE LET parsed == urlparse(u)
             name == NameOfPath(parsed.path)
             secret == QueryParam(parsed.query, <<"s", "e", "c", "r", "e", "t">>)
             issuer == QueryParam(parsed.query, <<"i", "s", "s", "u", "e", "r">>)
         IN  IF name = << >>
             THEN Raised("ValueError", <<"TOTP URL must include a name/label">>)
             ELSE IF ~secret.found
                  THEN Raised("ValueError", <<"TOTP URL must include a secret parameter">>)
             ELSE Returned([name |-> name, issuer |-> issuer,
                            secret |-> secret.value, url |-> u])

LabelChars == {"t", "o", "p", "/", "a", ":"}
UrlPrefixes == { TotpPrefix, <<"o", "t", "p", "a", "u", "t", "h", ":", "/", "/", "h", "o", "t", "p", "/">> }
UrlQueries == { << >>, <<"?", "s", "e", "c", "r", "e", "t", "=", "A", "B">>, <<"?", "s", "e", "c", "r", "e", "t", "=">>, <<"?", "i", "s", "s", "u", "e", "r", "=", "a", "&", "s", "e", "c", "r", "e", "t", "=", "A", "B">>, <<"?", "i", "s", "s", "u", "e", "r", "=", "a">> }
Urls == { pre \o label \o q :
            pre \in UrlPrefixes, label \in SeqsUpTo(LabelChars, MaxLabelLen), q \in UrlQueries }

ParseTotpUrl(u) ==
    /\ url' = u
    /\ urlOut' = parse_totp_url(u)
    /\ UNCHANGED <<cryptVars, totpVars>>

NextUrl == \E u \in Urls : ParseTotpUrl(u)

SpecUrl == Init /\ [][NextUrl]_vars

----------------------------------------------------------------------------
(* The error kinds of the codec, told apart by the message raised *)

InvalidInput(out) ==
    out = Raised("CryptException", <<"Plaintext and password cannot be empty">>)

AuthenticationFailed(out) ==
    out = Raised("CryptException", <<"Decryption failed: Invalid tag (wrong password?)">>)

TooShort(out) ==
    out = Raised("CryptException", <<"Decryption failed: ", "Encrypted data too short">>)

UnsupportedVersion(out, version) ==
    out = Raised("CryptException",
                 <<"Decryption failed: ", "Unsupported version ID: ">> \o Hex02(version))

NotUtf8(out) ==
    out = Raised("CryptException",
                 <<"Decryption failed: ", "'utf-8' codec can't decode byte">>)

\* decrypt ran on exactly what encrypt returned.
Untouched == phase = "decrypted" /\ edit.op = "none"

----------------------------------------------------------------------------
(* Claims about cli/crypt.py, under Spec *)

\* C1: round trip. Decrypting what encrypt returned for a non-empty
\* plaintext and a non-empty password, with the same password, returns
\* exactly the plaintext, whatever salt and IV were drawn.
C1_RoundTrip ==
    (Untouched /\ plaintext # << >> /\ password # << >> /\ decPassword = password)
        => decOut = Returned(plaintext)

C1_Witness ==
    /\ Untouched
    /\ decPassword = password
    /\ Len(Utf8Encode(plaintext)) = 3
    /\ decOut = Returned(plaintext)

C3_TamperDetected ==
    (/\ phase = "decrypted"
     /\ edit.op = "tamper"
     /\ edit.at >= 1 + SALT_SIZE + IV_SIZE
     /\ decPassword = password)
        => AuthenticationFailed(decOut)

\* the last byte of the tag was changed
C3_Witness ==
    /\ phase = "decrypted"
    /\ edit.op = "tamper"
    /\ edit.at = 1 + SALT_SIZE + IV_SIZE + Len(Utf8Encode(plaintext)) + TAG_SIZE - 1
    /\ decPassword = password
    /\ AuthenticationFailed(decOut)

\* C4: version rejection. An envelope of at least 46 bytes whose version
\* byte was replaced by a value other than 0x08 makes decrypt raise the
\* "Unsupported version ID" error, with the right password (a valid tag)
\* and with any other (an invalid tag).
C4_VersionRejected ==
    (phase = "decrypted" /\ edit.op = "version")
        => UnsupportedVersion(decOut, edit.by)

C4_Witness ==
    /\ phase = "decrypted"
    /\ edit.op = "version"
    /\ edit.by < VERSION_ID
    /\ decPassword = password
    /\ UnsupportedVersion(decOut, edit.by)

\* C5: truncation. A text that decodes to 0..45 bytes (the first bytes of
\* an envelope, or a short text that never was one) makes decrypt raise
\* the "Encrypted data too short" error, whatever its version byte and
\* whatever the password.
C5_Truncated ==
    /\ (phase = "decrypted" /\ edit.op = "truncate") => TooShort(decOut)
    /\ (phase = "decrypted" /\ edit.op = "garbage" /\ Base64Decode(Repad(wire)).ok)
          => TooShort(decOut)

\* 45 bytes with a foreign version byte, and the right password
C5_Witness ==
    /\ phase = "decrypted"
    /\ edit.op = "truncate"
    /\ edit.at = SALT_SIZE + IV_SIZE + TAG_SIZE + 1
    /\ edit.by # VERSION_ID
    /\ decPassword = password
    /\ TooShort(decOut)

\* C6: encrypt's preconditions. encrypt raises "Plaintext and password
\* cannot be empty" exactly when one of them is empty, and then it has
\* drawn no salt and no IV and there is no envelope.
C6_EncryptPreconditions ==
    (encOut # NotCalled) =>
        /\ InvalidInput(encOut) <=> (plaintext = << >> \/ password = << >>)
        /\ InvalidInput(encOut) => (salt = << >> /\ iv = << >> /\ wire = << >>)
        /\ ~InvalidInput(encOut) => (Len(salt) = SALT_SIZE /\ Len(iv) = IV_SIZE)

C6_Witness ==
    /\ plaintext # << >>
    /\ password = << >>
    /\ InvalidInput(encOut)
    /\ salt = << >>

\* C7: padding tolerance. With one or two of the trailing '=' of encrypt's
\* text removed, decrypt's re-padding gives the text back, a multiple of 4
\* characters long, and decrypt with the same password returns the
\* plaintext.
C7_PaddingTolerance ==
    (edit.op = "strip") =>
        /\ Repad(wire) = encOut.value
        /\ Len(Repad(wire)) % 4 = 0
        /\ (phase = "decrypted" /\ decPassword = password)
              => decOut = Returned(plaintext)

C7_Witness ==
    /\ phase = "decrypted"
    /\ edit.op = "strip"
    /\ edit.at = 2
    /\ decPassword = password
    /\ decOut = Returned(plaintext)

\* C8 as stated: an envelope whose tag verifies and whose recovered bytes
\* are not UTF-8 makes decrypt raise the same error as a tag mismatch, and
\* decrypt only ever returns a string or raises CryptException.
C8_NonUtf8IsAuthFailure ==
    /\ (/\ phase = "decrypted"
        /\ edit.op = "craft"
        /\ decPassword = password
        /\ ~Utf8Valid(edit.raw))
          => AuthenticationFailed(decOut)
    /\ phase = "decrypted" => decOut.exc \in {"none", "CryptException"}

\* C8 as amended: such an envelope makes decrypt raise CryptException from
\* its general except clause, "Decryption failed: " and the UTF-8
\* decoder's message, which is not the "Invalid tag" error; and decrypt
\* only ever returns a string or raises CryptException.
C8_NonUtf8IsGeneralFailure ==
    /\ (/\ phase = "decrypted"
        /\ edit.op = "craft"
        /\ decPassword = password
        /\ ~Utf8Valid(edit.raw))
          => (NotUtf8(decOut) /\ ~AuthenticationFailed(decOut))
    /\ phase = "decrypted" => decOut.exc \in {"none", "CryptException"}

C8_Witness ==
    /\ phase = "decrypted"
    /\ edit.op = "craft"
    /\ decPassword = password
    /\ edit.raw = <<237, 160, 128>>
    /\ NotUtf8(decOut)

----------------------------------------------------------------------------
(* Claim about generate_totp, under SpecTotp *)

ExplicitCode(call) ==
    TotpCode(call.secret, WholeSeconds(call.arg.t) \div 30)

\* C9: a call that passes a timestamp, 0 included, returns the 6-digit
\* code of the secret and of floor(timestamp / 30), whatever the clock
\* says; so two such calls with one secret and one 30-second window
\* return the same code.
C9_ExplicitTimestampDecides ==
    /\ (totpLast.called /\ totpLast.arg.given)
          => (Len(totpLast.code) = 6 /\ totpLast.code = ExplicitCode(totpLast))
    /\ (/\ totpLast.called /\ totpPrev.called
        /\ totpLast.arg.given /\ totpPrev.arg.given
        /\ totpLast.secret = totpPrev.secret
        /\ WholeSeconds(totpLast.arg.t) \div 30 = WholeSeconds(totpPrev.arg.t) \div 30)
          => totpLast.code = totpPrev.code

----------------------------------------------------------------------------
(* Claim about parse_totp_url, under SpecUrl *)

\* The text between "otpauth://totp/" and the first '?'.
LabelOf(u) ==
    LET rest == Drop(u, Len(TotpPrefix))
        qmark == FindAny(rest, {"?"}, 1)
    IN  IF qmark = 0 THEN rest ELSE Take(rest, qmark - 1)

HasSecret(u) ==
    LET rest == Drop(u, Len(TotpPrefix))
        qmark == FindAny(rest, {"?"}, 1)
    IN  qmark # 0 /\ QueryParam(Drop(rest, qmark), <<"s", "e", "c", "r", "e", "t">>).found

\* C10: for a URL that starts with "otpauth://totp/" and has a non-empty
\* label and a non-empty secret, the name returned is exactly the label,
\* whatever characters it starts with; "must include a name/label" is
\* raised only for an empty label.
C10_NameIsLabel ==
    (urlOut # NotCalled /\ StartsWith(url, TotpPrefix)) =>
        /\ (LabelOf(url) # << >> /\ HasSecret(url))
              => (urlOut.exc = "none" /\ urlOut.value.name = LabelOf(url))
        /\ urlOut = Raised("ValueError", <<"TOTP URL must include a name/label">>)
              => LabelOf(url) = << >>

=============================================================================
